---- MODULE Spec2Model ----
(***************************************************************************)
(* State-machine model of src/src/spatialSEIRModel.cpp: the constructor of *)
(* spatialSEIRModel, generateParamsPrior, setParameters, evalPrior,        *)
(* run_simulation, and the constructor of samplingControl.                 *)
(*                                                                         *)
(* Conventions.                                                            *)
(*  - Column, particle and prior indices are 0-based, as in the source.    *)
(*  - Real parameter values are integers counted in tenths (10 is 1.0).    *)
(*  - A double produced by a density is one of the IEEE classes "zero",    *)
(*    "pos" (finite, > 0), "inf" (+Inf) and "nan"; products of finite      *)
(*    values are taken not to overflow or underflow.                       *)
(*  - A field that the code reads without ever assigning holds an          *)
(*    indeterminate value: it is drawn nondeterministically.               *)
(***************************************************************************)
EXTENDS Integers, Sequences, FiniteSets, TLC

----------------------------------------------------------------------------
(* Bounds of the model *)

MaxLoc == 2
MaxTpt == 2
MaxLag == 1
MaxCov == 2
MaxNcalls == 1
MaxBatches == 2
MaxParticles == 2

(* Program constants *)

ReinfectionDisabled == 3
RetryLimit == 100

VARIABLES
    (* the seven component handles handed to the constructor *)
    dataModel, exposureModel, reinfectionModel, distanceModel,
    transitionPriors, initialValueContainer, samplingControl,
    (* spatialSEIRModel *)
    pc, error, transition_dist, generator, is_initialized, param_matrix,
    ncalls, results_double, results_complete, result_idx, worker_pool,
    (* generateParamsPrior: position, argument, locals, Rcout, result *)
    gen_pc, nParticles, i, outParams, rhoTot, rhoItrs, diagnostics,
    gen_return,
    (* the last call of setParameters or evalPrior: its argument and what
       came of it *)
    call,
    (* the calls of run_simulation: rows of params and the seed the pool
       holds for it *)
    batches,
    (* samplingControl::samplingControl: arguments, position, error,
       fields assigned so far *)
    integerParameters, numericParameters, sc_pc, sc_error, sc_fields

inputs == <<dataModel, exposureModel, reinfectionModel, distanceModel,
            transitionPriors, initialValueContainer, samplingControl>>

gen == <<gen_pc, nParticles, i, outParams, rhoTot, rhoItrs, diagnostics,
         gen_return>>

control == <<integerParameters, numericParameters, sc_pc, sc_error,
             sc_fields>>

others == <<gen, call, batches, control>>

model == <<pc, error, transition_dist, generator, is_initialized,
           param_matrix, ncalls, results_double, results_complete,
           result_idx, worker_pool>>

----------------------------------------------------------------------------
(* Component handles *)

ComponentRoles == <<"LSS_DATA_MODEL_TYPE", "LSS_EXPOSURE_MODEL_TYPE",
                    "LSS_REINFECTION_MODEL_TYPE", "LSS_DISTANCE_MODEL_TYPE",
                    "LSS_TRANSITION_MODEL_TYPE", "LSS_INIT_CONTAINER_TYPE",
                    "LSS_SAMPLING_CONTROL_MODEL_TYPE">>

Handles == <<dataModel, exposureModel, reinfectionModel, distanceModel,
             transitionPriors, initialValueContainer, samplingControl>>

TransitionModes == {"exponential", "weibull", "path_specific"}

(* A dimension that the constructor only compares with n. *)
Near(n) == {n, n + 1}

(* Sequences over S of length 0..n *)
SeqUpTo(S, n) == UNION {[1..k -> S] : k \in 0..n}

(* dataModel: Y has one row per time point and one column per location. *)
DataModels(types, locs, tpts) ==
    {[type |-> t, nLoc |-> n, nTpt |-> k, Ycols |-> n] :
        t \in types, n \in locs, k \in tpts}

(* exposureModel: X has one column per regression coefficient. *)
ExposureModels(types, locs, tpts, covs) ==
    {[type |-> t, nLoc |-> n, nTpt |-> k, Xcols |-> c,
      betaPriorPrecision |-> [j \in 0..(c - 1) |-> 10]] :
        t \in types, n \in locs, k \in tpts, c \in covs}

(* reinfectionModel: one prior precision per column of X_rs. *)
ReinfectionModels(types, modes, rows, cols, precisions) ==
    {[type |-> t, reinfectionMode |-> md,
      X_rs |-> [rows |-> r, cols |-> c],
      betaPriorPrecision |-> [j \in 0..(c - 1) |-> p]] :
        t \in types, md \in modes, r \in rows, c \in cols,
        p \in precisions}

(* distanceModel: dm_list is given by its size, tdm_list by the size of the
   lagged-matrix list of each time point. *)
DistanceModels(types, locs, dms, tdms) ==
    {[type |-> t, numLocations |-> n, dm_list |-> d, tdm_list |-> l,
      spatial_prior |-> <<10, 10>>] :
        t \in types, n \in locs, d \in dms, l \in tdms}

(* transitionPriors: column 0 of the two 4-row hyperparameter matrices,
   rows 0..3, in tenths. *)
TransitionPriorSets(types, modes, shapes) ==
    {[type |-> t, mode |-> md,
      E_to_I_params |-> [r \in 0..3 |-> IF r = 0 THEN sh ELSE 10],
      I_to_R_params |-> [r \in 0..3 |-> 10]] :
        t \in types, md \in modes, sh \in shapes}

InitialValueContainers(types, sizes) ==
    {[type |-> t, S0 |-> n] : t \in types, n \in sizes}

SamplingControls(types) ==
    {[type |-> t, random_seed |-> 7, CPU_cores |-> 2, batch_size |-> 2,
      m |-> 1] : t \in types}

Matrix(r, c) == [rows |-> r, cols |-> c]

NoPool == [exists |-> FALSE, seed |-> 0, cores |-> 0]

----------------------------------------------------------------------------
(* spatialSEIRModel::spatialSEIRModel *)

ConstructorStepsPoolEarly ==
    <<"types", "nLocExposure", "nTptExposure", "nLocDistance", "tdmCount",
      "tdmSizes", "S0", "reinfection", "worker_pool", "mode",
      "transition_dist", "generator", "is_initialized", "results">>

(* The statements of the constructor, in the order of the source. *)
ConstructorSteps ==
    <<"types", "nLocExposure", "nTptExposure", "nLocDistance", "tdmCount",
      "tdmSizes", "S0", "reinfection", "mode", "transition_dist",
      "generator", "is_initialized", "results", "worker_pool">>

After(step) ==
    LET at == CHOOSE k \in 1..Len(ConstructorSteps) :
                  ConstructorSteps[k] = step
    IN  IF at = Len(ConstructorSteps) THEN "ready"
        ELSE ConstructorSteps[at + 1]

fields == <<transition_dist, generator, is_initialized, param_matrix,
            ncalls, results_double, results_complete, result_idx,
            worker_pool>>

(* Rcpp::stop *)
Stop(msg) ==
    /\ pc' = "error"
    /\ error' = msg
    /\ UNCHANGED <<fields, inputs, others>>

Continue ==
    /\ pc' = After(pc)
    /\ UNCHANGED <<error, fields, inputs, others>>

WrongOrder ==
    \E p \in 1..Len(ComponentRoles) : Handles[p].type # ComponentRoles[p]

CheckTypes ==
    /\ pc = "types"
    /\ IF WrongOrder THEN Stop("order") ELSE Continue

CheckNLocExposure ==
    /\ pc = "nLocExposure"
    /\ IF dataModel.nLoc # exposureModel.nLoc
        THEN Stop("nLoc exposure") ELSE Continue

CheckNTptExposure ==
    /\ pc = "nTptExposure"
    /\ IF dataModel.nTpt # exposureModel.nTpt
        THEN Stop("nTpt exposure") ELSE Continue

CheckNLocDistance ==
    /\ pc = "nLocDistance"
    /\ IF dataModel.nLoc # distanceModel.numLocations
        THEN Stop("nLoc distance") ELSE Continue

CheckTdmCount ==
    /\ pc = "tdmCount"
    /\ IF Len(distanceModel.tdm_list) # dataModel.nTpt
        THEN Stop("tdm count") ELSE Continue

(* sz1 = tdm_list[0].size() is read before the loop: with an empty
   tdm_list the read is out of bounds, and the build either faults or
   reads some value and goes on (the loop body never runs). *)
CheckTdmSizes ==
    /\ pc = "tdmSizes"
    /\ IF distanceModel.tdm_list = <<>>
        THEN \/ /\ pc' = "crashed"
                /\ UNCHANGED <<error, fields, inputs, others>>
             \/ Continue
        ELSE LET sz1 == distanceModel.tdm_list[1]
             IN  IF \E t \in 1..Len(distanceModel.tdm_list) :
                        distanceModel.tdm_list[t] # sz1
                 THEN Stop("tdm sizes") ELSE Continue

CheckS0 ==
    /\ pc = "S0"
    /\ IF dataModel.nLoc # initialValueContainer.S0
        THEN Stop("S0") ELSE Continue

CheckReinfection ==
    /\ pc = "reinfection"
    /\ IF reinfectionModel.reinfectionMode = ReinfectionDisabled
        THEN Continue
        ELSE IF reinfectionModel.X_rs.rows # dataModel.nTpt
             THEN Stop("reinfection") ELSE Continue

CheckMode ==
    /\ pc = "mode"
    /\ IF /\ transitionPriors.mode # "exponential"
           /\ transitionPriors.mode # "path_specific"
           /\ transitionPriors.mode # "weibull"
        THEN Stop("mode") ELSE Continue

SetUpTransitionDist ==
    /\ pc = "transition_dist"
    /\ transition_dist' = IF transitionPriors.mode = "weibull"
                           THEN "weibull" ELSE "dummy"
    /\ pc' = After(pc)
    /\ UNCHANGED <<error, generator, is_initialized, param_matrix, ncalls,
                   results_double, results_complete, result_idx,
                   worker_pool, inputs, others>>

SetUpGenerator ==
    /\ pc = "generator"
    /\ generator' = [seed |-> samplingControl.random_seed + 1]
    /\ pc' = After(pc)
    /\ UNCHANGED <<error, transition_dist, is_initialized, param_matrix,
                   ncalls, results_double, results_complete, result_idx,
                   worker_pool, inputs, others>>

SetUninitialized ==
    /\ pc = "is_initialized"
    /\ is_initialized' = FALSE
    /\ pc' = After(pc)
    /\ UNCHANGED <<error, transition_dist, generator, param_matrix, ncalls,
                   results_double, results_complete, result_idx,
                   worker_pool, inputs, others>>

SetUpResults ==
    /\ pc = "results"
    /\ results_complete' = <<>>
    /\ results_double' = Matrix(samplingControl.batch_size,
                                samplingControl.m)
    /\ pc' = After(pc)
    /\ UNCHANGED <<error, transition_dist, generator, is_initialized,
                   param_matrix, ncalls, result_idx, worker_pool, inputs,
                   others>>

(* ncalls is read here and assigned nowhere in the source. *)
CreateWorkerPool ==
    /\ pc = "worker_pool"
    /\ worker_pool' = [exists |-> TRUE,
                       seed |-> samplingControl.random_seed + ncalls,
                       cores |-> samplingControl.CPU_cores]
    /\ pc' = After(pc)
    /\ UNCHANGED <<error, transition_dist, generator, is_initialized,
                   param_matrix, ncalls, results_double, results_complete,
                   result_idx, inputs, others>>

Constructor ==
    \/ CheckTypes
    \/ CheckNLocExposure
    \/ CheckNTptExposure
    \/ CheckNLocDistance
    \/ CheckTdmCount
    \/ CheckTdmSizes
    \/ CheckS0
    \/ CheckReinfection
    \/ CheckMode
    \/ SetUpTransitionDist
    \/ SetUpGenerator
    \/ SetUninitialized
    \/ SetUpResults
    \/ CreateWorkerPool

----------------------------------------------------------------------------
(* spatialSEIRModel::run_simulation: the body is empty. *)

RunSimulation ==
    /\ pc = "ready"
    /\ Len(batches) < MaxBatches
    /\ \E rows \in 1..MaxParticles :
          batches' = Append(batches, [rows |-> rows,
                                      seed |-> worker_pool.seed])
    /\ UNCHANGED <<model, inputs, gen, call, control>>

----------------------------------------------------------------------------
(* spatialSEIRModel::generateParamsPrior *)

B(flag) == IF flag THEN 1 ELSE 0

RECURSIVE SumOver(_, _)
SumOver(f, S) ==
    IF S = {} THEN 0
    ELSE LET c == CHOOSE x \in S : TRUE
         IN  f[c] + SumOver(f, S \ {c})

GenHasReinfection == reinfectionModel.betaPriorPrecision[0] > 0
GenHasSpatial == dataModel.Ycols > 1
GenNBeta == exposureModel.Xcols
GenNBetaRS == reinfectionModel.X_rs.cols * B(GenHasReinfection)
GenNRho ==
    (distanceModel.dm_list + distanceModel.tdm_list[1]) * B(GenHasSpatial)

GenNTransWeibullTwo ==
    IF transitionPriors.mode = "exponential" THEN 2
    ELSE IF transitionPriors.mode = "weibull" THEN 2 ELSE 0

GenNTrans ==
    IF transitionPriors.mode = "exponential" THEN 2
    ELSE IF transitionPriors.mode = "weibull" THEN 4 ELSE 0

GenNParams == GenNBeta + GenNBetaRS + GenNRho + GenNTrans

(* N, the row count of outParams, is declared nowhere in the source; the
   specification's N x nParams matrix has one row per particle. *)
GenN == nParticles

Unset == [blk |-> "unset", v |-> 0]

NoMatrix == [rows |-> 0, cols |-> 0, at |-> <<>>]

(* The values a draw of rhoDist takes in the model, in tenths. *)
RhoDraws == {5, 12}

(* Assign, in every row r < nParticles of m, the columns c of the set
   columns: the entry is of block blk and holds c - base. *)
Assign(m, columns, blk, base) ==
    [m EXCEPT !.at =
        [r \in DOMAIN m.at |->
            [c \in DOMAIN m.at[r] |->
                IF r < nParticles /\ c \in columns
                THEN [blk |-> blk, v |-> c - base]
                ELSE m.at[r][c]]]]

(* Lines 196-252: the layout, the matrix, the samplers. *)
GenerateParamsPrior ==
    /\ pc = "ready"
    /\ gen_pc = "idle"
    /\ \E n \in 0..MaxParticles :
          /\ nParticles' = n
          /\ outParams' =
                [rows |-> n, cols |-> GenNParams,
                 at |-> [r \in 0..(n - 1) |->
                           [c \in 0..(GenNParams - 1) |-> Unset]]]
    /\ rhoTot' = 0
    /\ rhoItrs' = 0
    /\ gen_pc' = "beta"
    /\ UNCHANGED <<i, diagnostics, gen_return, model, inputs, call,
                   batches, control>>

(* Lines 253-262: column j from exposure prior entry j. *)
DrawBeta ==
    /\ gen_pc = "beta"
    /\ outParams' = Assign(outParams, 0..(GenNBeta - 1), "beta", 0)
    /\ gen_pc' = "transition"
    /\ UNCHANGED <<nParticles, i, rhoTot, rhoItrs, diagnostics, gen_return,
                   model, inputs, call, batches, control>>

(* Lines 263-285: v is the offset of the column in the block. *)
DrawTransition ==
    /\ gen_pc = "transition"
    /\ LET base == GenNBeta + GenNBetaRS + GenNRho
           count == IF transitionPriors.mode = "exponential" THEN 2
                    ELSE IF transitionPriors.mode = "weibull" THEN 4
                    ELSE 0
       IN  outParams' = Assign(outParams, base..(base + count - 1),
                               "transition", base)
    /\ gen_pc' = "reinfection"
    /\ UNCHANGED <<nParticles, i, rhoTot, rhoItrs, diagnostics, gen_return,
                   model, inputs, call, batches, control>>

(* Lines 286-299: column j is drawn with the reinfection prior entry read
   at index j; v is that index. *)
DrawReinfection ==
    /\ gen_pc = "reinfection"
    /\ LET columns == IF GenHasReinfection
                      THEN GenNBeta..(GenNBeta + GenNBetaRS - 1)
                      ELSE {}
       IN  outParams' = Assign(outParams, columns, "betaRS", 0)
    /\ i' = 0
    /\ gen_pc' = IF GenHasSpatial THEN "rho_for" ELSE "end"
    /\ UNCHANGED <<nParticles, rhoTot, rhoItrs, diagnostics, gen_return,
                   model, inputs, call, batches, control>>

(* Lines 303-306 *)
RhoFor ==
    /\ gen_pc = "rho_for"
    /\ IF i < nParticles
       THEN /\ rhoTot' = 20
            /\ rhoItrs' = 0
            /\ gen_pc' = "rho_while"
       ELSE /\ gen_pc' = "end"
            /\ UNCHANGED <<rhoTot, rhoItrs>>
    /\ UNCHANGED <<nParticles, i, outParams, diagnostics, gen_return, model,
                   inputs, call, batches, control>>

RhoLoopConditionInclusive == rhoTot >= 10 /\ rhoItrs < RetryLimit

(* Line 307 *)
RhoLoopCondition == rhoTot > 10 /\ rhoItrs < RetryLimit

RhoColumns == (GenNBeta + GenNBetaRS)..(GenNBeta + GenNBetaRS + GenNRho - 1)

(* Lines 307-316: one pass of the while loop. *)
RhoDraw ==
    /\ gen_pc = "rho_while"
    /\ RhoLoopCondition
    /\ \E draw \in [RhoColumns -> RhoDraws] :
          /\ outParams' =
                [outParams EXCEPT !.at[i] =
                    [c \in DOMAIN outParams.at[i] |->
                        IF c \in RhoColumns
                        THEN [blk |-> "rho", v |-> draw[c]]
                        ELSE outParams.at[i][c]]]
          /\ rhoTot' = SumOver(draw, RhoColumns)
    /\ rhoItrs' = rhoItrs + 1
    /\ UNCHANGED <<gen_pc, nParticles, i, diagnostics, gen_return, model,
                   inputs, call, batches, control>>

(* Lines 317-321: the loop is left; Rcout gets the message. *)
RhoDone ==
    /\ gen_pc = "rho_while"
    /\ ~RhoLoopCondition
    /\ diagnostics' = IF rhoTot > 10 THEN Append(diagnostics, i)
                      ELSE diagnostics
    /\ i' = i + 1
    /\ gen_pc' = "rho_for"
    /\ UNCHANGED <<nParticles, outParams, rhoTot, rhoItrs, gen_return,
                   model, inputs, call, batches, control>>

(* What the caller may find in place of a matrix that was never returned. *)
IndeterminateMatrices ==
    {[rows |-> r, cols |-> r, at |-> <<>>] : r \in 0..1}

(* Line 323: the function ends without a return statement; outParams and
   the other locals are destroyed and the caller's matrix is
   indeterminate. *)
ReturnFromGenerate ==
    /\ gen_pc = "end"
    /\ gen_return' \in IndeterminateMatrices
    /\ outParams' = NoMatrix
    /\ nParticles' = 0
    /\ i' = 0
    /\ rhoTot' = 0
    /\ rhoItrs' = 0
    /\ gen_pc' = "returned"
    /\ UNCHANGED <<diagnostics, model, inputs, call, batches, control>>

Generate ==
    \/ GenerateParamsPrior
    \/ DrawBeta
    \/ DrawTransition
    \/ DrawReinfection
    \/ RhoFor
    \/ RhoDraw
    \/ RhoDone
    \/ ReturnFromGenerate

----------------------------------------------------------------------------
(* spatialSEIRModel::setParameters *)

(* hasReinfection, hasSpatial and transitionMode are used on lines 328-333
   and declared nowhere in the source; by the specification the three
   operations compute nParams alike. *)
SetHasReinfection == reinfectionModel.betaPriorPrecision[0] > 0
SetHasSpatial == dataModel.Ycols > 1
SetTransitionMode == transitionPriors.mode

SetNBeta == exposureModel.Xcols
SetNBetaRS == reinfectionModel.X_rs.cols * B(SetHasReinfection)
SetNRho ==
    (distanceModel.dm_list + distanceModel.tdm_list[1]) * B(SetHasSpatial)
SetNTrans ==
    IF SetTransitionMode = "exponential" THEN 2
    ELSE IF SetTransitionMode = "weibull" THEN 4 ELSE 0
SetNParams == SetNBeta + SetNBetaRS + SetNRho + SetNTrans

(* The column counts of the matrices handed to setParameters. *)
ColumnCounts == 0..(MaxCov + MaxLag + 7)

SetParametersFlagFirst(rows, cols) ==
    /\ is_initialized' = TRUE
    /\ IF cols # SetNParams
       THEN /\ call' = [op |-> "setParameters", rows |-> rows,
                        cols |-> cols, outcome |-> "error", ret |-> FALSE]
            /\ UNCHANGED param_matrix
       ELSE /\ param_matrix' = Matrix(rows, cols)
            /\ \E ret \in BOOLEAN :
                  call' = [op |-> "setParameters", rows |-> rows,
                           cols |-> cols, outcome |-> "ok", ret |-> ret]

(* Lines 325-343. Rcpp::stop leaves the call with an error; the function
   is declared bool and has no return statement, so the value the caller
   gets is indeterminate. *)
SetParametersBody(rows, cols) ==
    IF cols # SetNParams
    THEN /\ call' = [op |-> "setParameters", rows |-> rows,
                     cols |-> cols, outcome |-> "error", ret |-> FALSE]
         /\ UNCHANGED <<param_matrix, is_initialized>>
    ELSE /\ param_matrix' = Matrix(rows, cols)
         /\ is_initialized' = TRUE
         /\ \E ret \in BOOLEAN :
               call' = [op |-> "setParameters", rows |-> rows,
                        cols |-> cols, outcome |-> "ok", ret |-> ret]

SetParameters ==
    /\ pc = "ready"
    /\ gen_pc \in {"idle", "returned"}
    /\ \E rows \in 1..MaxParticles, cols \in ColumnCounts :
          SetParametersBody(rows, cols)
    /\ UNCHANGED <<pc, error, transition_dist, generator, ncalls,
                   results_double, results_complete, result_idx,
                   worker_pool, inputs, gen, batches, control>>

----------------------------------------------------------------------------
(* spatialSEIRModel::evalPrior *)

Times(a, b) ==
    IF a = "nan" \/ b = "nan" THEN "nan"
    ELSE IF (a = "zero" /\ b = "inf") \/ (a = "inf" /\ b = "zero")
    THEN "nan"
    ELSE IF a = "zero" \/ b = "zero" THEN "zero"
    ELSE IF a = "inf" \/ b = "inf" THEN "inf"
    ELSE "pos"

(* outPrior = 1.0, then outPrior *= factor for each factor in turn. *)
RECURSIVE Product(_, _)
Product(acc, factors) ==
    IF factors = <<>> THEN acc
    ELSE Product(Times(acc, Head(factors)), Tail(factors))

(* R::dnorm(x, mu, 1/precision, 0) *)
Dnorm(x, precision) ==
    IF precision < 0 THEN "nan"
    ELSE IF precision = 0 THEN "zero"
    ELSE "pos"

(* R::dbeta(x, a, b, 0), a > 0 and b > 0 *)
Dbeta(x, a, b) ==
    IF x < 0 \/ x > 10 THEN "zero"
    ELSE IF x = 0
    THEN IF a > 10 THEN "zero" ELSE IF a < 10 THEN "inf" ELSE "pos"
    ELSE IF x = 10
    THEN IF b > 10 THEN "zero" ELSE IF b < 10 THEN "inf" ELSE "pos"
    ELSE "pos"

(* R::dgamma(x, shape, 1/rate, 0), shape > 0 and rate > 0 *)
Dgamma(x, shape, rate) ==
    IF x < 0 THEN "zero"
    ELSE IF x = 0
    THEN IF shape < 10 THEN "inf" ELSE IF shape > 10 THEN "zero" ELSE "pos"
    ELSE "pos"

(* weibullTransitionDistribution::evalParamPrior: the hyperprior density
   of the two hyperparameters of one transition. *)
EvalParamPrior(params, segment) ==
    Times(Dgamma(segment[1], params[0], params[1]),
          Dgamma(segment[2], params[2], params[3]))

(* Lines 345-413. prior is the class of the value returned; reads is the
   set of entries of param_vector the call reads. *)
EvalPrior(v) ==
    LET hasReinfection == reinfectionModel.betaPriorPrecision[0] > 0
        hasSpatial == dataModel.Ycols > 1
        transitionMode == transitionPriors.mode
        nBeta == exposureModel.Xcols
        nBetaRS == reinfectionModel.X_rs.cols * B(hasReinfection)
        nRho == (distanceModel.dm_list + distanceModel.tdm_list[1])
                    * B(hasSpatial)
        beta == [k \in 1..nBeta |->
                    Dnorm(v[k - 1], exposureModel.betaPriorPrecision[k - 1])]
        betaRS == [k \in 1..nBetaRS |->
                    Dnorm(v[nBeta + k - 1],
                          reinfectionModel.betaPriorPrecision[k - 1])]
        rhoAt == nBeta + nBetaRS
        rho == [k \in 1..nRho |->
                    Dbeta(v[rhoAt + k - 1], distanceModel.spatial_prior[1],
                          distanceModel.spatial_prior[2])]
        constr == SumOver(v, rhoAt..(rhoAt + nRho - 1))
        indicator == IF nRho > 0
                     THEN <<IF constr <= 10 THEN "pos" ELSE "zero">>
                     ELSE <<>>
        paramIdx == rhoAt + nRho
        transition ==
            IF transitionMode = "exponential"
            THEN <<Dgamma(v[paramIdx], transitionPriors.E_to_I_params[0],
                          transitionPriors.E_to_I_params[1]),
                   Dgamma(v[paramIdx + 1], transitionPriors.I_to_R_params[0],
                          transitionPriors.I_to_R_params[1])>>
            ELSE IF transitionMode = "weibull"
            THEN <<EvalParamPrior(transitionPriors.E_to_I_params,
                                  <<v[paramIdx], v[paramIdx + 1]>>),
                   EvalParamPrior(transitionPriors.I_to_R_params,
                                  <<v[paramIdx + 2], v[paramIdx + 3]>>)>>
            ELSE <<>>
        last == IF transitionMode = "exponential" THEN paramIdx + 1
                ELSE IF transitionMode = "weibull" THEN paramIdx + 3
                ELSE paramIdx - 1
    IN  [prior |-> Product("pos", beta \o betaRS \o rho \o indicator
                                  \o transition),
         reads |-> 0..last]

(* The vectors handed to evalPrior: as long as a row of the particle
   matrix, one value b per regression entry, one value t per transition
   entry, any values in the rho columns. *)
ParamVectors ==
    {[c \in 0..(GenNParams - 1) |->
        IF c < GenNBeta + GenNBetaRS THEN b
        ELSE IF c \in RhoColumns THEN r[c] ELSE t] :
        b \in {0, 12}, t \in {0, 6}, r \in [RhoColumns -> {0, 6, 12}]}

EvalPriorCall ==
    /\ pc = "ready"
    /\ gen_pc \in {"idle", "returned"}
    /\ \E v \in ParamVectors :
          call' = [op |-> "evalPrior", v |-> v,
                   prior |-> EvalPrior(v).prior,
                   reads |-> EvalPrior(v).reads]
    /\ UNCHANGED <<model, inputs, gen, batches, control>>

----------------------------------------------------------------------------
(* samplingControl::samplingControl.  Blocks are 1-based sequences:
   inIntegerParams(k) is integerParameters[k + 1]. *)

IntegerBlockSize == 9
NumericBlockSize == 3
ALG_BasicABC == 1
ALG_ModifiedBeaumont2009 == 2
ALG_DelMoral2012 == 3

(* Bounds on the arguments *)
LenSlack == 1
MaxAlgorithm == 4

ControlStop(msg) ==
    /\ sc_pc' = "error"
    /\ sc_error' = msg
    /\ UNCHANGED <<sc_fields, integerParameters, numericParameters>>

(* Lines 453-457 *)
CheckBlockSizes ==
    /\ sc_pc = "sizes"
    /\ IF \/ Len(integerParameters) # IntegerBlockSize
          \/ Len(numericParameters) # NumericBlockSize
       THEN ControlStop("sizes")
       ELSE /\ sc_pc' = "integers"
            /\ UNCHANGED <<sc_error, sc_fields, integerParameters,
                           numericParameters>>
    /\ UNCHANGED <<model, inputs, gen, call, batches>>

IntegerFieldsSwapped ==
    [simulation_width |-> integerParameters[1],
     random_seed |-> integerParameters[2],
     CPU_cores |-> integerParameters[3],
     algorithm |-> integerParameters[4],
     batch_size |-> integerParameters[5],
     epochs |-> integerParameters[7],
     max_batches |-> integerParameters[6],
     multivariatePerturbation |-> integerParameters[8] # 0,
     m |-> integerParameters[9]]

(* Lines 459-467 *)
IntegerFields ==
    [simulation_width |-> integerParameters[1],
     random_seed |-> integerParameters[2],
     CPU_cores |-> integerParameters[3],
     algorithm |-> integerParameters[4],
     batch_size |-> integerParameters[5],
     epochs |-> integerParameters[6],
     max_batches |-> integerParameters[7],
     multivariatePerturbation |-> integerParameters[8] # 0,
     m |-> integerParameters[9]]

(* Lines 476-478 *)
NumericFields ==
    [accept_fraction |-> numericParameters[1],
     shrinkage |-> numericParameters[2],
     target_eps |-> numericParameters[3]]

(* Lines 459-473; the warning of the single-thread build changes nothing. *)
AssignIntegers ==
    /\ sc_pc = "integers"
    /\ sc_fields' = sc_fields @@ IntegerFields
    /\ sc_pc' = "numerics"
    /\ UNCHANGED <<sc_error, integerParameters, numericParameters, model,
                   inputs, gen, call, batches>>

AssignNumerics ==
    /\ sc_pc = "numerics"
    /\ sc_fields' = sc_fields @@ NumericFields
    /\ sc_pc' = "algorithm"
    /\ UNCHANGED <<sc_error, integerParameters, numericParameters, model,
                   inputs, gen, call, batches>>

(* Lines 480-485 *)
CheckAlgorithm ==
    /\ sc_pc = "algorithm"
    /\ IF /\ sc_fields.algorithm # ALG_BasicABC
          /\ sc_fields.algorithm # ALG_ModifiedBeaumont2009
          /\ sc_fields.algorithm # ALG_DelMoral2012
       THEN ControlStop("algorithm")
       ELSE /\ sc_pc' = "max_batches"
            /\ UNCHANGED <<sc_error, sc_fields, integerParameters,
                           numericParameters>>
    /\ UNCHANGED <<model, inputs, gen, call, batches>>

(* Lines 486-489 *)
CheckMaxBatches ==
    /\ sc_pc = "max_batches"
    /\ IF sc_fields.max_batches <= 0
       THEN ControlStop("max_batches")
       ELSE /\ sc_pc' = "done"
            /\ UNCHANGED <<sc_error, sc_fields, integerParameters,
                           numericParameters>>
    /\ UNCHANGED <<model, inputs, gen, call, batches>>

SamplingControlConstructor ==
    \/ CheckBlockSizes
    \/ AssignIntegers
    \/ AssignNumerics
    \/ CheckAlgorithm
    \/ CheckMaxBatches

(* An integer block of the given length: the algorithm code, max_batches
   and the perturbation flag vary, every other entry is 10 + its index. *)
IntegerBlocks ==
    {[k \in 1..len |->
        IF k = 4 THEN alg ELSE IF k = 7 THEN mb ELSE IF k = 8 THEN mvp
        ELSE 10 + k] :
        len \in (IntegerBlockSize - LenSlack)..(IntegerBlockSize + LenSlack),
        alg \in 0..MaxAlgorithm, mb \in -1..2, mvp \in {0, 1, 2}}

NumericBlocks ==
    {[k \in 1..len |-> k] :
        len \in (NumericBlockSize - LenSlack)..(NumericBlockSize + LenSlack)}

----------------------------------------------------------------------------
(* Initial states *)

RightTypes == [p \in 1..Len(ComponentRoles) |-> ComponentRoles[p]]

(* The handles as a caller passes them with the handle at position p
   replaced by one of another role. *)
TypesWith(p) ==
    [RightTypes EXCEPT ![p] = ComponentRoles[(p % Len(ComponentRoles)) + 1]]

InitModel(counters) ==
    /\ pc = "types"
    /\ error = "none"
    /\ transition_dist = "unset"
    /\ generator = [seed |-> 0]
    /\ is_initialized \in BOOLEAN
    /\ param_matrix = Matrix(0, 0)
    /\ ncalls \in counters
    /\ results_double = Matrix(0, 0)
    /\ results_complete = <<>>
    /\ result_idx = <<>>
    /\ worker_pool = NoPool
    /\ batches = <<>>
    /\ gen_pc = "idle"
    /\ nParticles = 0
    /\ i = 0
    /\ outParams = NoMatrix
    /\ rhoTot = 0
    /\ rhoItrs = 0
    /\ diagnostics = <<>>
    /\ gen_return = NoMatrix
    /\ call = [op |-> "none"]

NoControl ==
    /\ integerParameters = <<>>
    /\ numericParameters = <<>>
    /\ sc_pc = "idle"
    /\ sc_error = "none"
    /\ sc_fields = <<>>

InputsWith(ty, locs, tpts, covs, rsModes, rsPrecs, lags, modes, shapes) ==
    /\ dataModel \in DataModels({ty[1]}, locs, tpts)
    /\ exposureModel \in ExposureModels({ty[2]}, Near(dataModel.nLoc),
                                          Near(dataModel.nTpt), covs)
    /\ reinfectionModel \in ReinfectionModels({ty[3]}, rsModes,
                              Near(dataModel.nTpt), {1}, rsPrecs)
    /\ distanceModel \in DistanceModels({ty[4]}, Near(dataModel.nLoc),
                                          {1}, lags)
    /\ transitionPriors \in TransitionPriorSets({ty[5]}, modes, shapes)
    /\ initialValueContainer \in
           InitialValueContainers({ty[6]}, Near(dataModel.nLoc))
    /\ samplingControl \in SamplingControls({ty[7]})

(* Every combination of dimensions with the handles in order; and, as the
   constructor returns at the type check before it reads anything else,
   each misplaced handle with one set of dimensions. *)
Init ==
    /\ InitModel(0..MaxNcalls)
    /\ NoControl
    /\ \/ InputsWith(RightTypes, 1..MaxLoc, 0..MaxTpt, {1}, {1, 3}, {10},
                      SeqUpTo(0..MaxLag, MaxTpt),
                      TransitionModes \cup {"gamma"}, {10})
       \/ \E p \in 1..Len(ComponentRoles) :
             InputsWith(TypesWith(p), {1}, {1}, {1}, {3}, {10}, {<<1>>},
                        {"exponential"}, {10})

vars == <<inputs, model, others>>

Next == Constructor \/ RunSimulation

Spec == Init /\ [][Next]_vars

(* Handles in order whose dimensions agree, with one time point. *)
ValidInputs(locs, covs, rsPrecisions, lags, modes, shapes) ==
    /\ dataModel \in DataModels({RightTypes[1]}, locs, {1})
    /\ exposureModel \in ExposureModels({RightTypes[2]}, {dataModel.nLoc},
                                          {1}, covs)
    /\ reinfectionModel \in ReinfectionModels({RightTypes[3]}, {1}, {1},
                                                {1}, rsPrecisions)
    /\ distanceModel \in DistanceModels({RightTypes[4]}, {dataModel.nLoc},
                                          {1}, [1..1 -> lags])
    /\ transitionPriors \in TransitionPriorSets({RightTypes[5]}, modes,
                                                  shapes)
    /\ initialValueContainer \in
           InitialValueContainers({RightTypes[6]}, {dataModel.nLoc})
    /\ samplingControl \in SamplingControls({RightTypes[7]})

(* The prior operations on the configurations the constructor accepts.
   No prior operation reads ncalls. *)
PriorInit ==
    /\ InitModel({0})
    /\ NoControl
    /\ ValidInputs(1..MaxLoc, 1..MaxCov, {0, 10}, 0..MaxLag,
                   TransitionModes, {5, 10})

(* The caller samples the prior once and then sets parameters and
   evaluates the prior in any order, any number of times. *)
PriorNext ==
    \/ Constructor
    \/ Generate
    \/ (gen_pc = "returned" /\ SetParameters)
    \/ (gen_pc = "returned" /\ EvalPriorCall)

PriorSpec == PriorInit /\ [][PriorNext]_vars

(* The construction of a samplingControl from every pair of blocks. *)
ControlInit ==
    /\ InitModel({0})
    /\ ValidInputs({1}, {1}, {10}, {1}, {"exponential"}, {10})
    /\ integerParameters \in IntegerBlocks
    /\ numericParameters \in NumericBlocks
    /\ sc_pc = "sizes"
    /\ sc_error = "none"
    /\ sc_fields = <<>>

ControlSpec == ControlInit /\ [][SamplingControlConstructor]_vars

----------------------------------------------------------------------------
(* The parameter layout [beta | betaRS | rho | transition] as the
   specification states it. *)

ReinfectionEnabled == reinfectionModel.betaPriorPrecision[0] > 0
SpatialEnabled == dataModel.nLoc > 1

NBeta == exposureModel.Xcols
NBetaRS == IF ReinfectionEnabled THEN reinfectionModel.X_rs.cols ELSE 0
NRho == IF SpatialEnabled
        THEN distanceModel.dm_list + distanceModel.tdm_list[1] ELSE 0
NTrans == CASE transitionPriors.mode = "exponential" -> 2
            [] transitionPriors.mode = "weibull" -> 4
            [] OTHER -> 0
NParams == NBeta + NBetaRS + NRho + NTrans

RhoBlock == (NBeta + NBetaRS)..(NBeta + NBetaRS + NRho - 1)

GenRunning == {"beta", "transition", "reinfection", "rho_for", "rho_while",
               "end"}

(* The sum of the rho block of row r of outParams *)
RowRhoSum(r) ==
    SumOver([c \in RhoBlock |-> outParams.at[r][c].v], RhoBlock)

----------------------------------------------------------------------------
(* C1: construction fails with a ConfigurationError exactly when a handle
   has the wrong type, a location or time-point count disagrees, the
   lagged-matrix lists are miscounted or of different lengths, S0 has the
   wrong length, the reinfection covariates have the wrong row count while
   reinfection is not disabled, or the transition mode is unknown; it
   succeeds otherwise. *)

InvalidInput ==
    \/ \E p \in 1..7 : Handles[p].type # ComponentRoles[p]
    \/ dataModel.nLoc # exposureModel.nLoc
    \/ dataModel.nLoc # distanceModel.numLocations
    \/ dataModel.nTpt # exposureModel.nTpt
    \/ Len(distanceModel.tdm_list) # dataModel.nTpt
    \/ \E a, b \in 1..Len(distanceModel.tdm_list) :
          distanceModel.tdm_list[a] # distanceModel.tdm_list[b]
    \/ initialValueContainer.S0 # dataModel.nLoc
    \/ /\ reinfectionModel.reinfectionMode # 3
       /\ reinfectionModel.X_rs.rows # dataModel.nTpt
    \/ transitionPriors.mode \notin {"exponential", "weibull",
                                     "path_specific"}

C1_FailsExactlyOnInvalidInput ==
    pc \in {"error", "ready", "crashed"} =>
        IF InvalidInput THEN pc = "error" ELSE pc = "ready"

(* C2: a construction that ends in a ConfigurationError never has a worker
   pool: every check of the constructor comes before the pool is made. *)
C2_NoPoolOnConfigurationError ==
    /\ pc = "error" => ~worker_pool.exists
    /\ worker_pool.exists => pc = "ready"

C2_LastCheckFails ==
    /\ pc = "error"
    /\ error = "mode"
    /\ ~worker_pool.exists

(* C3: the orchestrator is uninitialized after construction; a call of
   setParameters with a column count other than nParams fails and leaves
   the stored matrix and the flag as they were, a call with nParams columns
   stores the matrix and sets the flag; so the flag is set only if the
   stored matrix has nParams columns. *)
C3_SetParametersValidates ==
    /\ [][(pc # "ready" /\ pc' = "ready") => ~is_initialized']_vars
    /\ [](pc = "ready" /\ is_initialized => param_matrix.cols = NParams)
    /\ [][(/\ pc = "ready"
           /\ \/ call'.op = "setParameters" /\ call' # call
              \/ param_matrix' # param_matrix
              \/ is_initialized' # is_initialized)
          => /\ call'.op = "setParameters"
             /\ IF call'.cols # NParams
                THEN /\ call'.outcome = "error"
                     /\ param_matrix' = param_matrix
                     /\ is_initialized' = is_initialized
                ELSE /\ call'.outcome = "ok"
                     /\ param_matrix' = Matrix(call'.rows, call'.cols)
                     /\ is_initialized']_vars

C3_RejectedAfterAccepted ==
    /\ call.op = "setParameters"
    /\ call.outcome = "error"
    /\ is_initialized
    /\ param_matrix.cols = NParams

(* C4: for every valid configuration generateParamsPrior lays out, and
   setParameters accepts, and evalPrior reads, nBeta + nBetaRS + nRho +
   nTrans columns, nTrans being 2, 4 or 0. *)
C4_SameParameterCount ==
    /\ gen_pc \in GenRunning =>
          /\ outParams.cols = NParams
          /\ \A r \in DOMAIN outParams.at :
                DOMAIN outParams.at[r] = 0..(NParams - 1)
    /\ call.op = "setParameters" =>
          (call.outcome = "ok" <=> call.cols = NParams)
    /\ call.op = "evalPrior" => call.reads = 0..(NParams - 1)

C4_AllBlocksPresent ==
    /\ gen_pc = "returned"
    /\ call.op = "evalPrior"
    /\ is_initialized
    /\ transitionPriors.mode = "weibull"
    /\ ReinfectionEnabled
    /\ SpatialEnabled

(* C5: generateParamsPrior(nParticles) returns a matrix of nParticles rows
   and nParams columns in which every entry has been drawn. *)
C5_ReturnsFullMatrix ==
    [][(gen_pc = "end" /\ gen_pc' = "returned")
       => /\ gen_return' = outParams
          /\ outParams.rows = nParticles
          /\ outParams.cols = NParams
          /\ \A r \in DOMAIN outParams.at :
                \A c \in DOMAIN outParams.at[r] :
                   outParams.at[r][c].blk # "unset"]_vars

(* C6: with spatial enabled evalPrior returns 0 for every vector whose rho
   block sums to more than 1. *)
C6_ZeroOutsideSimplex ==
    (/\ call.op = "evalPrior"
     /\ SpatialEnabled
     /\ SumOver(call.v, RhoBlock) > 10)
    => call.prior = "zero"

(* C7: the call counter goes up with every batch, so no two batches run
   with the same seed base_seed + call_counter. *)
C7_DistinctSeeds ==
    \A a, b \in 1..Len(batches) :
        a # b => batches[a].seed # batches[b].seed

(* C8: when run_simulation(params) is over there is one result row per
   particle and the index array maps result row k to particle row k. *)
C8_ResultsInDispatchOrder ==
    batches # <<>> =>
        LET rows == batches[Len(batches)].rows
        IN  /\ results_double.rows = rows
            /\ result_idx = [k \in 1..rows |-> k - 1]

(* C9: the construction of a samplingControl fails exactly when the
   integer block has not 9 entries, or the numeric block has not 3, or the
   algorithm code is not 1, 2 or 3, or max_batches is not above zero;
   otherwise the twelve fields hold the blocks' entries in their fixed
   positions. *)
InvalidControl ==
    \/ Len(integerParameters) # 9
    \/ Len(numericParameters) # 3
    \/ integerParameters[4] \notin {1, 2, 3}
    \/ integerParameters[7] <= 0

C9_ControlValidates ==
    sc_pc \in {"done", "error"} =>
        IF InvalidControl THEN sc_pc = "error"
        ELSE /\ sc_pc = "done"
             /\ sc_fields =
                   [simulation_width |-> integerParameters[1],
                    random_seed |-> integerParameters[2],
                    CPU_cores |-> integerParameters[3],
                    algorithm |-> integerParameters[4],
                    batch_size |-> integerParameters[5],
                    epochs |-> integerParameters[6],
                    max_batches |-> integerParameters[7],
                    multivariatePerturbation |-> integerParameters[8] # 0,
                    m |-> integerParameters[9],
                    accept_fraction |-> numericParameters[1],
                    shrinkage |-> numericParameters[2],
                    target_eps |-> numericParameters[3]]

C9_Constructed ==
    /\ sc_pc = "done"
    /\ sc_fields.algorithm = 3
    /\ sc_fields.max_batches = 1
    /\ sc_fields.multivariatePerturbation

(* C10: with spatial enabled the rho block of every particle is drawn at
   least once and at most 100 times; a draw is made again only after a
   draw whose sum is above 1; when the 100th draw is still above 1 it is
   kept, the diagnostic is written, and the sampling goes on with the next
   particle; the loop cannot run on or get stuck. *)
C10_RhoRetries ==
    /\ [](gen_pc = "rho_while" => rhoItrs <= 100)
    /\ [](gen_pc \in {"rho_for", "rho_while"} =>
             \A r \in 0..(i - 1) : \A c \in RhoBlock :
                outParams.at[r][c].blk = "rho")
    /\ [](gen_pc \in GenRunning => ENABLED Generate)
    /\ [][(gen_pc = "rho_while" /\ gen_pc' = "rho_while"
              /\ <<outParams, rhoItrs>>' # <<outParams, rhoItrs>>)
          => /\ rhoItrs' = rhoItrs + 1
             /\ rhoItrs = 0 \/ RowRhoSum(i) > 10
             /\ \A c \in RhoBlock : outParams'.at[i][c].blk = "rho"
             /\ i' = i]_vars
    /\ [][(gen_pc = "rho_while" /\ gen_pc' # "rho_while")
          => /\ rhoItrs >= 1
             /\ RowRhoSum(i) <= 10 \/ rhoItrs = 100
             /\ outParams' = outParams
             /\ diagnostics' = IF RowRhoSum(i) > 10
                               THEN Append(diagnostics, i)
                               ELSE diagnostics
             /\ gen_pc' = "rho_for"
             /\ i' = i + 1
             /\ pc' = "ready"]_vars

C10_NextParticleAfterExhaustion ==
    /\ gen_pc = "rho_while"
    /\ i = 1
    /\ diagnostics = <<0>>
    /\ rhoItrs = 100
    /\ RowRhoSum(0) > 10

(* C11: with reinfection enabled, column nBeta + k of every particle is
   drawn by generateParamsPrior from the reinfection prior entry k, the
   entry evalPrior uses for position nBeta + k, and no entry with an index
   outside 0..nBetaRS-1 is read. *)
C11_ReinfectionPriorEntry ==
    (gen_pc \in GenRunning /\ ReinfectionEnabled) =>
        \A r \in DOMAIN outParams.at :
            \A c \in DOMAIN outParams.at[r] :
                outParams.at[r][c].blk = "betaRS" =>
                    /\ outParams.at[r][c].v = c - NBeta
                    /\ outParams.at[r][c].v \in 0..(NBetaRS - 1)

====
